---- MODULE Spec2Model ----
(***************************************************************************)
(* Model of shockpkg/hdi-mac: the Mounter class (hdiutil attach / eject,   *)
(* plist response parsing, root device selection, eject capability) and    *)
(* the shutdown hook registry of util.ts.                                  *)
(*                                                                         *)
(* The repository holds several revisions of the Mounter:                  *)
(*   "hook"  src/src/mounter.ts 1-333     plist-dom parser, shutdownHook   *)
(*   "plist" src/src/mounter.ts 669-1027  plist parser, shutdownHook       *)
(*   "sync"  src/unnamed/part_001         plist-dom parser, sync variants, *)
(*                                        process 'exit' listener          *)
(* Each is modelled; an attach records the revision it was made by.        *)
(***************************************************************************)
EXTENDS Integers, Sequences, FiniteSets, TLC

(***************************************************************************)
(* JavaScript values. Every value is a record tagged by "type", so that    *)
(* null, strings, numbers, booleans and objects can be told apart.         *)
(***************************************************************************)
JsNull == [type |-> "null"]

JsUndefined == [type |-> "undefined"]

JsStr(s) == [type |-> "string", s |-> s]

JsNum(n) == [type |-> "number", n |-> n]

\* JavaScript truthiness, as used by `if (x)`, `x || y`, `x && y`.
Truthy(v) ==
    CASE v.type = "null" -> FALSE
      [] v.type = "undefined" -> FALSE
      [] v.type = "string" -> v.s # ""
      [] v.type = "number" -> v.n # 0
      [] v.type = "integer" -> v.n # 0
      [] v.type = "boolean" -> v.b
      [] OTHER -> TRUE

(***************************************************************************)
(* Plist value tree (the external plist library's result for a document).  *)
(***************************************************************************)
VString(s) == [type |-> "string", s |-> s]

VBoolean(b) == [type |-> "boolean", b |-> b]

VInteger(n) == [type |-> "integer", n |-> n]

VArray(items) == [type |-> "array", items |-> items]

VDict(entries) == [type |-> "dict", entries |-> entries]

\* A document that is not well-formed XML / not a plist (includes empty text).
XmlMalformed == [type |-> "malformed"]

\* A well-formed plist document with the given root value (JsNull: no value).
XmlPlist(root) == [type |-> "plist", root |-> root]

\* typeof, for the values the `plist` package hands back.
TypeOf(v) ==
    CASE v.type = "string" -> "string"
      [] v.type = "boolean" -> "boolean"
      [] v.type = "integer" -> "number"
      [] OTHER -> "object"

(***************************************************************************)
(* Results of operations that may throw.                                   *)
(***************************************************************************)
Ok(v) == [ok |-> TRUE, value |-> v]

Throw(kind, detail) == [ok |-> FALSE, kind |-> kind, detail |-> detail]

ParseError(path) == Throw("ParseError", path)

(***************************************************************************)
(* Mounter._parseDevices, plist-dom revisions ("hook", "sync").            *)
(***************************************************************************)
\* ValueDict.get(key): the value, or null when the key is absent.
DictGet(dict, key) ==
    IF key \in DOMAIN dict.entries THEN dict.entries[key] ELSE JsNull

\* dict.getValue(key).castAs(Type): throws when absent or of another type.
GetValueCastAs(dict, key, type) ==
    IF key \notin DOMAIN dict.entries
    THEN ParseError("system-entities > * > " \o key)
    ELSE IF dict.entries[key].type # type
         THEN ParseError("system-entities > * > " \o key)
         ELSE Ok(dict.entries[key])

\* Mutant of OptionalCastAs: tests the string itself, `if (v && v.value)`.
OptionalCastAsNonEmpty(dict, key) ==
    LET v == DictGet(dict, key)
    IN  IF v.type = "null" THEN Ok(JsNull)
        ELSE IF v.type # "string"
             THEN ParseError("system-entities > * > " \o key)
             ELSE IF v.s = "" THEN Ok(JsNull) ELSE Ok(v)

\* `if (v) { device.field = v.castAs(ValueString).value; }`
\* Ok(JsNull) when the key is absent (field left unset).
\* A Value object is truthy whatever it holds; only null is not.
OptionalCastAs(dict, key) ==
    LET v == DictGet(dict, key)
    IN  IF v.type = "null" THEN Ok(JsNull)
        ELSE IF v.type # "string"
             THEN ParseError("system-entities > * > " \o key)
             ELSE Ok(v)

\* A device object with the optional property set only when a value exists.
SetField(device, name, v) ==
    IF v.type = "null" THEN device ELSE device @@ (name :> v.s)

\* The device of the four optional results, or the first error among them.
BuildDevice(devEntry, potentiallyMountable, ch, uch, vk, mp) ==
    IF ~ch.ok THEN ch
    ELSE IF ~uch.ok THEN uch
    ELSE IF ~vk.ok THEN vk
    ELSE IF ~mp.ok THEN mp
    ELSE Ok(SetField(SetField(SetField(SetField(
            [devEntry |-> devEntry.value.s,
             potentiallyMountable |-> potentiallyMountable.value.b],
            "contentHint", ch.value),
            "unmappedContentHint", uch.value),
            "volumeKind", vk.value),
            "mountPoint", mp.value))

\* The body of the for loop for one element of system-entities.
parseEntity(value) ==
    IF value.type # "dict" THEN ParseError("system-entities > *")
    ELSE
      LET devEntry == GetValueCastAs(value, "dev-entry", "string")
          potentiallyMountable ==
              GetValueCastAs(value, "potentially-mountable", "boolean")
      IN  IF ~devEntry.ok THEN devEntry
          ELSE IF ~potentiallyMountable.ok THEN potentiallyMountable
          ELSE BuildDevice(devEntry, potentiallyMountable,
                   OptionalCastAs(value, "content-hint"),
                   OptionalCastAs(value, "unmapped-content-hint"),
                   OptionalCastAs(value, "volume-kind"),
                   OptionalCastAs(value, "mount-point"))

\* Mutant of parseLoop: an element that fails is skipped (catch, continue).
RECURSIVE parseLoopSkip(_, _, _)
parseLoopSkip(items, i, r) ==
    IF i > Len(items) THEN Ok(r)
    ELSE LET d == parseEntity(items[i])
         IN  IF ~d.ok THEN parseLoopSkip(items, i + 1, r)
             ELSE parseLoopSkip(items, i + 1, Append(r, d.value))

\* Mutant of parseLoop: r.unshift(device) in place of r.push(device).
RECURSIVE parseLoopUnshift(_, _, _)
parseLoopUnshift(items, i, r) ==
    IF i > Len(items) THEN Ok(r)
    ELSE LET d == parseEntity(items[i])
         IN  IF ~d.ok THEN d
             ELSE parseLoopUnshift(items, i + 1, <<d.value>> \o r)

\* The for loop: devices pushed to r in order; a throw abandons r.
RECURSIVE parseLoop(_, _, _)
parseLoop(items, i, r) ==
    IF i > Len(items) THEN Ok(r)
    ELSE LET d == parseEntity(items[i])
         IN  IF ~d.ok THEN d ELSE parseLoop(items, i + 1, Append(r, d.value))

\* Mutant of parseDevices: a document without a system-entities array is
\* read as an empty device list.
parseDevicesLenient(xml) ==
    IF xml.type = "malformed" THEN Ok(<<>>)
    ELSE IF xml.root.type # "dict" THEN Ok(<<>>)
    ELSE IF "system-entities" \notin DOMAIN xml.root.entries THEN Ok(<<>>)
    ELSE IF xml.root.entries["system-entities"].type # "array" THEN Ok(<<>>)
    ELSE parseLoop(xml.root.entries["system-entities"].items, 1, <<>>)

parseDevices(xml) ==
    IF xml.type = "malformed" THEN ParseError("xml")
    ELSE IF xml.root.type # "dict" THEN ParseError("root")
    ELSE IF "system-entities" \notin DOMAIN xml.root.entries
         THEN ParseError("system-entities")
    ELSE IF xml.root.entries["system-entities"].type # "array"
         THEN ParseError("system-entities")
    ELSE parseLoop(xml.root.entries["system-entities"].items, 1, <<>>)

(***************************************************************************)
(* Mounter._parseDevices, plist revision ("plist").                        *)
(***************************************************************************)
\* entity[prop] on a parsed value: undefined unless a dictionary has the key.
PropertyOf(entity, prop) ==
    IF entity.type = "dict" /\ prop \in DOMAIN entity.entries
    THEN entity.entries[prop]
    ELSE JsUndefined

TypeOfProperty(v) == IF v.type = "undefined" THEN "undefined" ELSE TypeOf(v)

entityProp(entity, prop, type) ==
    LET r == PropertyOf(entity, prop)
    IN  IF TypeOfProperty(r) # type
        THEN ParseError("system-entities > * > " \o prop)
        ELSE Ok(r)

\* `prop in entity`
PropIn(entity, prop) == entity.type = "dict" /\ prop \in DOMAIN entity.entries

entityPropNull(entity, prop, type) ==
    IF PropIn(entity, prop) THEN entityProp(entity, prop, type) ELSE Ok(JsNull)

parseEntityPlist(entity) ==
    IF ~Truthy(entity) \/ TypeOf(entity) # "object"
    THEN ParseError("system-entities > *")
    ELSE
      LET devEntry == entityProp(entity, "dev-entry", "string")
          potentiallyMountable ==
              entityProp(entity, "potentially-mountable", "boolean")
      IN  IF ~devEntry.ok THEN devEntry
          ELSE IF ~potentiallyMountable.ok THEN potentiallyMountable
          ELSE BuildDevice(devEntry, potentiallyMountable,
                   entityPropNull(entity, "content-hint", "string"),
                   entityPropNull(entity, "unmapped-content-hint", "string"),
                   entityPropNull(entity, "volume-kind", "string"),
                   entityPropNull(entity, "mount-point", "string"))

RECURSIVE parseLoopPlist(_, _, _)
parseLoopPlist(items, i, r) ==
    IF i > Len(items) THEN Ok(r)
    ELSE LET d == parseEntityPlist(items[i])
         IN  IF ~d.ok THEN d
             ELSE parseLoopPlist(items, i + 1, Append(r, d.value))

parseDevicesPlist(xml) ==
    IF xml.type = "malformed" THEN ParseError("xml")
    ELSE IF ~Truthy(xml.root) THEN ParseError("root")
    ELSE IF PropertyOf(xml.root, "system-entities").type # "array"
         THEN ParseError("system-entities")
    ELSE parseLoopPlist(PropertyOf(xml.root, "system-entities").items, 1, <<>>)

(***************************************************************************)
(* Mounter._findRootDevice: null on an empty list.                         *)
(***************************************************************************)
\* Mutant of findRootStep: `>=` in place of `>` (a tie takes the later device).
findRootStepLast(r, device, i) ==
    IF r.type = "null" THEN [type |-> "object", device |-> device, index |-> i]
    ELSE IF Len(r.device.devEntry) >= Len(device.devEntry)
         THEN [type |-> "object", device |-> device, index |-> i]
         ELSE r

\* `if (r === null || r.devEntry.length > device.devEntry.length) r = device`
\* The reference to the i-th object of the list is (device, index).
findRootStep(r, device, i) ==
    IF r.type = "null" THEN [type |-> "object", device |-> device, index |-> i]
    ELSE IF Len(r.device.devEntry) > Len(device.devEntry)
         THEN [type |-> "object", device |-> device, index |-> i]
         ELSE r

RECURSIVE findRootLoop(_, _, _)
findRootLoop(devices, i, r) ==
    IF i > Len(devices) THEN r
    ELSE findRootLoop(devices, i + 1, findRootStep(r, devices[i], i))

findRootDevice(devices) == findRootLoop(devices, 1, JsNull)

(***************************************************************************)
(* Mounter constructor and argument lists.                                 *)
(***************************************************************************)
\* An options object: a record tagged "object" holding the properties set.
JsObject == [type |-> "object"]

\* `options && options.name` for a boolean option.
OptionSet(options, name) ==
    /\ Truthy(options)
    /\ name \in DOMAIN options
    /\ options[name]

\* Mutant of Constructor: `??` in place of `||` (an empty path is kept).
ConstructorNullish(options) ==
    LET v == IF Truthy(options)
             THEN IF "hdiutil" \in DOMAIN options
                  THEN options.hdiutil ELSE JsUndefined
             ELSE JsNull
    IN  IF v.type = "string" THEN v.s ELSE "hdiutil"

\* this.hdiutil = (options ? options.hdiutil : null) || 'hdiutil'
Constructor(options) ==
    LET v == IF Truthy(options)
             THEN IF "hdiutil" \in DOMAIN options
                  THEN options.hdiutil ELSE JsUndefined
             ELSE JsNull
    IN  IF Truthy(v) THEN v.s ELSE "hdiutil"

\* Mutant of fileArg: the path is handed on as it is.
fileArgRaw(file) == file

\* file.charAt(0) === '-' ? `./${file}` : file
fileArg(file) ==
    IF Len(file) > 0 /\ Head(file) = "-" THEN "./" \o file ELSE file

\* Mutant of argsAttach: -nobrowse is pushed before -readonly.
argsAttachNobrowseFirst(file, options) ==
    <<"attach", "-plist">>
    \o (IF OptionSet(options, "nobrowse") THEN <<"-nobrowse">> ELSE <<>>)
    \o (IF OptionSet(options, "readonly") THEN <<"-readonly">> ELSE <<>>)
    \o <<fileArg(file)>>

argsAttach(file, options) ==
    <<"attach", "-plist">>
    \o (IF OptionSet(options, "readonly") THEN <<"-readonly">> ELSE <<>>)
    \o (IF OptionSet(options, "nobrowse") THEN <<"-nobrowse">> ELSE <<>>)
    \o <<fileArg(file)>>

\* Mutant of argsEject: -force is pushed after the file.
argsEjectForceLast(file, options) ==
    <<"eject">>
    \o <<fileArg(file)>>
    \o (IF OptionSet(options, "force") THEN <<"-force">> ELSE <<>>)

argsEject(file, options) ==
    <<"eject">>
    \o (IF OptionSet(options, "force") THEN <<"-force">> ELSE <<>>)
    \o <<fileArg(file)>>

(***************************************************************************)
(* Shutdown hook registry (util.ts). exitHooks is a Set: no duplicates,    *)
(* iterated in insertion order, modelled as a sequence without repeats.    *)
(***************************************************************************)
InSeq(q, x) == \E i \in 1..Len(q) : q[i] = x

Without(q, x) == SelectSeq(q, LAMBDA y : y # x)

\* exitHooks.add(callback)
shutdownHook(hooks, callback) ==
    IF InSeq(hooks, callback) THEN hooks ELSE Append(hooks, callback)

\* exitHooks.delete(callback)
shutdownUnhook(hooks, callback) == Without(hooks, callback)

\* exitHandler: `const list = [...exitHooks]` (empty: returns at once).
exitHandlerList(hooks) == hooks

\* Mutant of exitHandlerClear: the set is not cleared.
exitHandlerKeep(hooks) == hooks

\* exitHandler: `exitHooks.clear()`
exitHandlerClear(hooks) == <<>>

(***************************************************************************)
(* Running the tool: Mounter._runAttach, _runAttachSync, _runEject,        *)
(* _runEjectSync. `parsed` records whether _parseDevices was called.       *)
(***************************************************************************)
ExitError(kind, code) == [ok |-> FALSE, kind |-> kind, code |-> code]

LaunchError == [ok |-> FALSE, kind |-> "LaunchError"]

Pending == [pending |-> TRUE]

\* The parser of the revision.
parseDevicesOf(r, xml) ==
    IF r = "plist" THEN parseDevicesPlist(xml) ELSE parseDevices(xml)

\* Mutant of runAttach: the output is parsed before the code is looked at.
runAttachParseFirst(r, code, stdout) ==
    IF ~parseDevicesOf(r, stdout).ok
    THEN [parsed |-> TRUE, result |-> parseDevicesOf(r, stdout)]
    ELSE IF Truthy(code)
         THEN [parsed |-> TRUE, result |-> ExitError("AttachFailed", code)]
         ELSE [parsed |-> TRUE, result |-> parseDevicesOf(r, stdout)]

\* After `const code = await done`: throw on a truthy code, else parse.
runAttach(r, code, stdout) ==
    IF Truthy(code)
    THEN [parsed |-> FALSE, result |-> ExitError("AttachFailed", code)]
    ELSE [parsed |-> TRUE, result |-> parseDevicesOf(r, stdout)]

\* Mutant of runAttachSync: the status of the subprocess is not looked at.
runAttachSyncNoStatus(r, status, error, stdout) ==
    IF error THEN [parsed |-> FALSE, result |-> LaunchError]
    ELSE [parsed |-> TRUE, result |-> parseDevicesOf(r, stdout)]

\* const {status, error, stdout} = spawnSync(...)
runAttachSync(r, status, error, stdout) ==
    IF error THEN [parsed |-> FALSE, result |-> LaunchError]
    ELSE IF Truthy(status)
         THEN [parsed |-> FALSE, result |-> ExitError("AttachFailed", status)]
         ELSE [parsed |-> TRUE, result |-> parseDevicesOf(r, stdout)]

\* Mutant of runEject: the exit code is not looked at.
runEjectSwallow(code) == Ok(JsUndefined)

\* Mutant of runEject: `code !== 0` in place of `code` (null is a failure).
runEjectStrict(code) ==
    IF code # JsNum(0) THEN ExitError("EjectFailed", code) ELSE Ok(JsUndefined)

\* After `const code = await done` in _runEject.
runEject(code) ==
    IF Truthy(code) THEN ExitError("EjectFailed", code) ELSE Ok(JsUndefined)

runEjectSync(status, error) ==
    IF error THEN LaunchError
    ELSE IF Truthy(status) THEN ExitError("EjectFailed", status)
         ELSE Ok(JsUndefined)

(***************************************************************************)
(* Mounter._createEject (revisions "hook", "plist") and                    *)
(* Mounter._createEjects (revision "sync"): the state of the closure.      *)
(***************************************************************************)
\* Mutant of rootDevPathOf: a default target when there is no root device.
rootDevPathOfDefault(devices) ==
    LET rootDev == findRootDevice(devices)
    IN  IF Truthy(rootDev) THEN JsStr(rootDev.device.devEntry)
        ELSE JsStr("/dev/disk0")

\* const rootDevPath = rootDev ? rootDev.devEntry : null
rootDevPathOf(devices) ==
    LET rootDev == findRootDevice(devices)
    IN  IF Truthy(rootDev) THEN JsStr(rootDev.device.devEntry) ELSE JsNull

\* let devEntry = this._findRootDevice(devices)?.devEntry
devEntryOf(devices) ==
    LET rootDev == findRootDevice(devices)
    IN  IF rootDev.type = "null" THEN JsUndefined
        ELSE JsStr(rootDev.device.devEntry)

\* Mutant of createEjectHooks: `if (ejectOnShutdown)`.
createEjectHooksNoRoot(devices, ejectOnShutdown) == Truthy(ejectOnShutdown)

\* `if (rootDevPath && ejectOnShutdown)`: is the shutdown ejector registered.
createEjectHooks(devices, ejectOnShutdown) ==
    Truthy(rootDevPathOf(devices)) /\ Truthy(ejectOnShutdown)

\* `if (ejectOnExit)`: is the exit listener registered.
createEjectsHooks(devices, ejectOnExit) == Truthy(ejectOnExit)

\* The ejectOnExit that attach / attachSync hand to _createEjects: the call
\* is `this._createEjects(devices)`, so the parameter takes its default.
createEjectsArgument(ejectOnExit) == JsNull

(***************************************************************************)
(* Bounds and input sets.                                                  *)
(***************************************************************************)
\* Longest system-entities array handed to the parsers.
MaxEntities == 2

\* Longest device list handed to the root device selection.
MaxDevices == 3

\* Most attach / attachSync calls in one run.
MaxAttach == 2

\* Most explicit calls of eject capabilities in one run.
MaxCalls == 2

\* Most attach calls and explicit eject calls together in one run.
MaxOps == 3

\* Most runs of the exit handler in one run.
MaxDrains == 2

\* The disk image every attach of the system model is given.
ImageFile == "test-disk-image.dmg"

\* All sequences over S of length at most n.
RECURSIVE SeqsUpTo(_, _)
SeqsUpTo(S, n) ==
    IF n = 0 THEN {<<>>}
    ELSE LET shorter == SeqsUpTo(S, n - 1)
         IN  shorter \cup {Append(q, x) : q \in {t \in shorter : Len(t) = n - 1},
                                          x \in S}

DevEntries == {"", "/dev/disk42", "/dev/disk43", "/dev/disk42s1"}

\* A dictionary entity with the two required keys.
Entity(devEntry, potentiallyMountable) ==
    VDict(("dev-entry" :> VString(devEntry))
          @@ ("potentially-mountable" :> VBoolean(potentiallyMountable)))

OptionalKeys ==
    {"content-hint", "unmapped-content-hint", "volume-kind", "mount-point"}

\* The device property an optional key is stored in.
FieldOf(key) ==
    CASE key = "content-hint" -> "contentHint"
      [] key = "unmapped-content-hint" -> "unmappedContentHint"
      [] key = "volume-kind" -> "volumeKind"
      [] key = "mount-point" -> "mountPoint"

WithKey(entity, key, value) == VDict((key :> value) @@ entity.entries)

WithoutKey(entity, key) ==
    VDict([k \in DOMAIN entity.entries \ {key} |-> entity.entries[k]])

FixtureDisk ==
    WithKey(WithKey(Entity("/dev/disk42", FALSE),
        "content-hint", VString("GUID_partition_scheme")),
        "unmapped-content-hint", VString("GUID_partition_scheme"))

FixtureVolume ==
    WithKey(WithKey(WithKey(WithKey(Entity("/dev/disk42s1", TRUE),
        "content-hint", VString("Apple_HFS")),
        "unmapped-content-hint", VString("00000000-0000")),
        "volume-kind", VString("hfs")),
        "mount-point", VString("/Volumes/test-disk-image"))

Entities ==
    {Entity(d, m) : d \in DevEntries, m \in BOOLEAN}
    \cup {WithKey(Entity("/dev/disk42s1", TRUE), k, v) :
            k \in OptionalKeys, v \in {VString(""), VString("hfs"), VInteger(7)}}
    \cup {FixtureDisk, FixtureVolume}
    \cup {WithoutKey(Entity("/dev/disk42", TRUE), "dev-entry"),
          WithoutKey(Entity("/dev/disk42", TRUE), "potentially-mountable"),
          WithKey(Entity("/dev/disk42", TRUE), "dev-entry", VInteger(42)),
          WithKey(Entity("/dev/disk42", TRUE), "potentially-mountable",
                  VString("true"))}
    \cup {VString("/dev/disk42"), VString(""), VInteger(0), VArray(<<>>)}

\* A response whose system-entities array is the given sequence.
Response(items) == XmlPlist(VDict("system-entities" :> VArray(items)))

ParseInputs ==
    {Response(items) : items \in SeqsUpTo(Entities, MaxEntities)}
    \cup {XmlMalformed, XmlPlist(JsNull), XmlPlist(VString("")),
          XmlPlist(VString("x")), XmlPlist(VArray(<<>>)), XmlPlist(VDict(<<>>)),
          XmlPlist(VDict("system-entities" :> VString("x"))),
          XmlPlist(VDict("system-entities" :> VDict(<<>>)))}

Devices ==
    {[devEntry |-> d, potentiallyMountable |-> FALSE] : d \in DevEntries}
    \cup {[devEntry |-> "/dev/disk42s1", potentiallyMountable |-> TRUE,
           volumeKind |-> "hfs"]}

RootInputs == SeqsUpTo(Devices, MaxDevices)

\* Exit codes handed to the _run functions (null: ended by a signal).
PureExitCodes == {JsNull, JsNum(0), JsNum(1), JsNum(2), JsNum(255)}

RunInputs ==
    {[fn |-> "run", code |-> c, error |-> e, xml |-> x] :
        c \in PureExitCodes, e \in BOOLEAN,
        x \in {Response(<<FixtureDisk, FixtureVolume>>), Response(<<>>),
               XmlMalformed, XmlPlist(JsNull), XmlPlist(VArray(<<>>)),
               XmlPlist(VDict(<<>>)),
               XmlPlist(VDict("system-entities" :> VString("x")))}}

\* File and target strings handed to attach and eject.
Files ==
    {"", "a.dmg", "test-disk-image.dmg", "/dev/disk42", "./-a.dmg",
     "-", "-a.dmg", "-plist", "-readonly", "-force"}

\* An object with no property of its own.
NoProperty == [k \in {} |-> TRUE]

\* Options objects with the named boolean option true, false or unset.
WithOption(objects, name) ==
    {o @@ part : o \in objects,
                 part \in {NoProperty, name :> TRUE, name :> FALSE}}

AttachOptionObjects ==
    {JsNull} \cup WithOption(WithOption({JsObject}, "readonly"), "nobrowse")

EjectOptionObjects == {JsNull} \cup WithOption({JsObject}, "force")

ArgsInputs ==
    {[fn |-> "args", file |-> f, attachOptions |-> ao, ejectOptions |-> eo] :
        f \in Files, ao \in AttachOptionObjects, eo \in EjectOptionObjects}

\* Opaque callbacks handed to shutdownHook.
MaxCallbacks == 2

\* Most times one callback is added to the registry.
MaxAdded == 2

(***************************************************************************)
(* State.                                                                  *)
(***************************************************************************)
VARIABLES
    rev,            \* the revision of the Mounter the process has loaded
    hdiutil,        \* Mounter.hdiutil
    attaches,       \* the attach calls made so far, with their closures
    procs,          \* the subprocesses spawned so far
    calls,          \* the calls of eject capabilities made so far
    exitHooks,      \* util.ts exitHooks
    exitHooked,     \* util.ts exitHooked
    exitListeners,  \* the process 'exit' listeners added by _createEjects
    drains,         \* the runs of exitHandler that found a hook
    hookLog,        \* per opaque callback: times added, times invoked
    pin,            \* the argument of the pure function under check
    pout            \* its result, once applied

sysvars == <<rev, hdiutil, attaches, procs, calls, exitHooks, exitHooked,
             exitListeners, drains>>

purevars == <<pin, pout>>

vars == <<rev, hdiutil, attaches, procs, calls, exitHooks, exitHooked,
          exitListeners, drains, hookLog, pin, pout>>

PureIdle == [done |-> FALSE]

\* The "plist" revision runs the orchestration of "hook" with another parser;
\* the two parsers are compared on every document in SpecPure.
Revisions == {"hook", "sync"}

\* Options handed to the Mounter constructor.
ConstructorOptions ==
    {JsNull, JsObject,
     JsObject @@ [hdiutil |-> JsNull],
     JsObject @@ [hdiutil |-> JsStr("")],
     JsObject @@ [hdiutil |-> JsStr("/tmp/dummy")]}

SysInit ==
    /\ rev \in Revisions
    /\ hdiutil = Constructor(JsNull)
    /\ attaches = <<>>
    /\ procs = <<>>
    /\ calls = <<>>
    /\ exitHooks = <<>>
    /\ exitHooked = FALSE
    /\ exitListeners = <<>>
    /\ drains = <<>>

HookLogIdle == [added |-> <<>>, invoked |-> <<>>]

Init ==
    /\ SysInit
    /\ hookLog = HookLogIdle
    /\ pin = [fn |-> "none"]
    /\ pout = PureIdle

(***************************************************************************)
(* attach / attachSync.                                                    *)
(***************************************************************************)
\* The closure state _createEject / _createEjects leaves for attach a.
Created(a, devices, ejectOnShutdown) ==
    IF rev = "sync"
    THEN [rootDevPath |-> devEntryOf(devices),
          shutdownEjector |->
              createEjectsHooks(devices, createEjectsArgument(ejectOnShutdown))]
    ELSE [rootDevPath |-> rootDevPathOf(devices),
          shutdownEjector |-> createEjectHooks(devices, ejectOnShutdown)]

\* The attach record once _runAttach has settled with outcome `run`.
Settled(at, a, run) ==
    IF run.result.ok
    THEN [at EXCEPT !.pc = "returned",
                    !.parsed = run.parsed,
                    !.result = run.result,
                    !.rootDevPath =
                        Created(a, run.result.value, at.ejectOnShutdown).rootDevPath,
                    !.shutdownEjector =
                        Created(a, run.result.value, at.ejectOnShutdown).shutdownEjector]
    ELSE [at EXCEPT !.pc = "threw",
                    !.parsed = run.parsed,
                    !.result = run.result]

\* Mutant of HooksAfter: the callback is registered whenever auto-eject was
\* asked for, whether or not _runAttach succeeded.
HooksAfterEager(at, a) ==
    IF Truthy(at.ejectOnShutdown) /\ rev # "sync"
    THEN shutdownHook(exitHooks, a) ELSE exitHooks

\* The registries after attach a has settled as `at`.
HooksAfter(at, a) ==
    IF at.pc = "returned" /\ at.shutdownEjector /\ rev # "sync"
    THEN shutdownHook(exitHooks, a) ELSE exitHooks

HookedAfter(at, a) ==
    IF at.pc = "returned" /\ at.shutdownEjector /\ rev # "sync"
    THEN TRUE ELSE exitHooked

ListenersAfter(at, a) ==
    IF at.pc = "returned" /\ at.shutdownEjector /\ rev = "sync"
    THEN Append(exitListeners, a) ELSE exitListeners

NewAttach(sync, options, ejectOnShutdown, proc) ==
    [sync |-> sync, ejectOnShutdown |-> ejectOnShutdown, pc |-> "running",
     proc |-> proc, parsed |-> FALSE, result |-> Pending,
     rootDevPath |-> JsNull, shutdownEjector |-> FALSE]

NewProc(kind, args, owner) ==
    [kind |-> kind, cmd |-> hdiutil, args |-> args, owner |-> owner,
     state |-> "running"]

ExplicitCalls == {c \in 1..Len(calls) : calls[c].via = "explicit"}

\* The program may make one more call of attach or of an eject capability.
MayCall == Len(attaches) + Cardinality(ExplicitCalls) < MaxOps

\* attach(file, options, ejectOnShutdown) up to `await done`.
AttachStart(options, ejectOnShutdown) ==
    /\ Len(attaches) < MaxAttach
    /\ MayCall
    /\ procs' = Append(procs, NewProc("attach", argsAttach(ImageFile, options),
                                      Len(attaches) + 1))
    /\ attaches' = Append(attaches,
            NewAttach(FALSE, options, ejectOnShutdown, Len(procs) + 1))
    /\ UNCHANGED <<rev, hdiutil, calls, exitHooks, exitHooked, exitListeners,
                   drains, hookLog, pin, pout>>

\* The 'exit' event of the attach subprocess, and the rest of attach.
AttachExit(a, code, stdout) ==
    /\ attaches[a].pc = "running"
    /\ LET at == Settled(attaches[a], a, runAttach(rev, code, stdout))
       IN  /\ attaches' = [attaches EXCEPT ![a] = at]
           /\ exitHooks' = HooksAfter(at, a)
           /\ exitHooked' = HookedAfter(at, a)
           /\ exitListeners' = ListenersAfter(at, a)
    /\ procs' = [procs EXCEPT ![attaches[a].proc] = [@ EXCEPT !.state = "exit"]]
    /\ UNCHANGED <<rev, hdiutil, calls, drains, hookLog, pin, pout>>

\* The 'error' event of the attach subprocess: the tool could not be started.
AttachError(a) ==
    /\ attaches[a].pc = "running"
    /\ attaches' = [attaches EXCEPT ![a] =
                       [@ EXCEPT !.pc = "threw", !.result = LaunchError]]
    /\ procs' = [procs EXCEPT ![attaches[a].proc] = [@ EXCEPT !.state = "error"]]
    /\ UNCHANGED <<rev, hdiutil, calls, exitHooks, exitHooked, exitListeners,
                   drains, hookLog, pin, pout>>

\* attachSync(file, options, ejectOnExit): spawnSync, then the rest.
AttachSync(options, ejectOnShutdown, status, error, stdout) ==
    /\ rev = "sync"
    /\ Len(attaches) < MaxAttach
    /\ MayCall
    /\ LET a == Len(attaches) + 1
           at == Settled(NewAttach(TRUE, options, ejectOnShutdown, Len(procs) + 1),
                         a, runAttachSync(rev, status, error, stdout))
       IN  /\ attaches' = Append(attaches, at)
           /\ exitHooks' = HooksAfter(at, a)
           /\ exitHooked' = HookedAfter(at, a)
           /\ exitListeners' = ListenersAfter(at, a)
    /\ procs' = Append(procs,
          [NewProc("attach", argsAttach(ImageFile, options), Len(attaches) + 1)
             EXCEPT !.state = IF error THEN "error" ELSE "exit"])
    /\ UNCHANGED <<rev, hdiutil, calls, drains, hookLog, pin, pout>>

(***************************************************************************)
(* The eject capability returned by attach.                                *)
(***************************************************************************)
NewCall(a, options, via, sync, pc, proc, result) ==
    [attach |-> a, options |-> options, via |-> via, sync |-> sync,
     pc |-> pc, proc |-> proc, result |-> result]

\* The part of the program state the start of an eject call works on.
EjectState == [attaches |-> attaches, procs |-> procs, calls |-> calls,
               exitHooks |-> exitHooks]

\* Mutant of ejectStart: the shutdown ejector is left in the registry.
ejectStartKeepHook(st, a, options, via) ==
    LET at == st.attaches[a]
    IN  IF ~Truthy(at.rootDevPath)
        THEN [st EXCEPT !.calls = Append(@,
                 NewCall(a, options, via, FALSE, "returned", 0, Ok(JsUndefined)))]
        ELSE [st EXCEPT
                 !.procs = Append(@,
                     NewProc("eject", argsEject(at.rootDevPath.s, options), a)),
                 !.calls = Append(@,
                     NewCall(a, options, via, FALSE, "awaiting",
                             Len(st.procs) + 1, Pending))]

\* Revisions "hook", "plist": the closure `eject` up to `await done`.
\* The rootDevPath is a const of the closure.
ejectStart(st, a, options, via) ==
    LET at == st.attaches[a]
        unhooked ==
            IF at.shutdownEjector
            THEN [st EXCEPT !.exitHooks = shutdownUnhook(@, a),
                            !.attaches[a].shutdownEjector = FALSE]
            ELSE st
    IN  IF ~Truthy(at.rootDevPath)
        THEN [unhooked EXCEPT !.calls = Append(@,
                 NewCall(a, options, via, FALSE, "returned", 0, Ok(JsUndefined)))]
        ELSE [unhooked EXCEPT
                 !.procs = Append(@,
                     NewProc("eject", argsEject(at.rootDevPath.s, options), a)),
                 !.calls = Append(@,
                     NewCall(a, options, via, FALSE, "awaiting",
                             Len(st.procs) + 1, Pending))]

\* Revision "sync": the closure `eject` up to the await in _runEject.
ejectsStart(st, a, options, via) ==
    LET at == st.attaches[a]
    IN  IF Truthy(at.rootDevPath)
        THEN [st EXCEPT
                 !.procs = Append(@,
                     NewProc("eject", argsEject(at.rootDevPath.s, options), a)),
                 !.calls = Append(@,
                     NewCall(a, options, via, FALSE, "awaiting",
                             Len(st.procs) + 1, Pending))]
        ELSE [st EXCEPT !.calls = Append(@,
                 NewCall(a, options, via, FALSE, "returned", 0, Ok(JsUndefined)))]

ejectStartOf(st, a, options, via) ==
    IF rev = "sync" THEN ejectsStart(st, a, options, via)
    ELSE ejectStart(st, a, options, via)


\* info.eject(options), called by the program.
EjectCall(a, options) ==
    /\ attaches[a].pc = "returned"
    /\ Cardinality(ExplicitCalls) < MaxCalls
    /\ MayCall
    /\ LET st == ejectStartOf(EjectState, a, options, "explicit")
       IN  /\ attaches' = st.attaches
           /\ procs' = st.procs
           /\ calls' = st.calls
           /\ exitHooks' = st.exitHooks
    /\ UNCHANGED <<rev, hdiutil, exitHooked, exitListeners, drains, hookLog, pin, pout>>

\* Revision "sync", after the await: `devEntry = ''` and process.off.
ejectsFinish(at) == [at EXCEPT !.rootDevPath = JsStr("")]

\* The 'exit' event of an eject subprocess, and the rest of the call.
EjectExit(c, code) ==
    /\ calls[c].pc = "awaiting"
    /\ LET r == runEject(code)
           a == calls[c].attach
       IN  /\ calls' = [calls EXCEPT ![c] =
                  [@ EXCEPT !.pc = IF r.ok THEN "returned" ELSE "threw",
                            !.result = r]]
           /\ attaches' = IF rev = "sync" /\ r.ok
                          THEN [attaches EXCEPT ![a] = ejectsFinish(@)]
                          ELSE attaches
           /\ exitListeners' = IF rev = "sync" /\ r.ok /\ attaches[a].shutdownEjector
                               THEN Without(exitListeners, a)
                               ELSE exitListeners
    /\ procs' = [procs EXCEPT ![calls[c].proc] = [@ EXCEPT !.state = "exit"]]
    /\ UNCHANGED <<rev, hdiutil, exitHooks, exitHooked, drains, hookLog, pin, pout>>

\* The 'error' event of an eject subprocess.
EjectError(c) ==
    /\ calls[c].pc = "awaiting"
    /\ calls' = [calls EXCEPT ![c] =
                    [@ EXCEPT !.pc = "threw", !.result = LaunchError]]
    /\ procs' = [procs EXCEPT ![calls[c].proc] = [@ EXCEPT !.state = "error"]]
    /\ UNCHANGED <<rev, hdiutil, attaches, exitHooks, exitHooked,
                   exitListeners, drains, hookLog, pin, pout>>

\* Revision "sync": info.ejectSync(options), called by the program.
EjectSyncCall(a, options, status, error) ==
    /\ rev = "sync"
    /\ attaches[a].pc = "returned"
    /\ Cardinality(ExplicitCalls) < MaxCalls
    /\ MayCall
    /\ IF Truthy(attaches[a].rootDevPath)
       THEN LET r == runEjectSync(status, error)
            IN  /\ procs' = Append(procs,
                      [NewProc("eject",
                               argsEject(attaches[a].rootDevPath.s, options), a)
                         EXCEPT !.state = IF error THEN "error" ELSE "exit"])
                /\ calls' = Append(calls,
                      NewCall(a, options, "explicit", TRUE,
                              IF r.ok THEN "returned" ELSE "threw",
                              Len(procs) + 1, r))
                /\ attaches' = IF r.ok
                               THEN [attaches EXCEPT ![a] = ejectsFinish(@)]
                               ELSE attaches
                /\ exitListeners' = IF r.ok /\ attaches[a].shutdownEjector
                                    THEN Without(exitListeners, a)
                                    ELSE exitListeners
       ELSE /\ calls' = Append(calls,
                      NewCall(a, options, "explicit", TRUE, "returned", 0,
                              Ok(JsUndefined)))
            /\ UNCHANGED <<procs, attaches, exitListeners>>
    /\ UNCHANGED <<rev, hdiutil, exitHooks, exitHooked, drains, hookLog, pin, pout>>

(***************************************************************************)
(* exitHandler (util.ts): snapshot, clear, call every hook of the list.    *)
(***************************************************************************)
\* `list.map(async f => f())`: each shutdownEjector runs eject(ejectOnShutdown)
\* up to its await, in list order.
\* Mutant of callHooks: each shutdownEjector runs eject() without options.
RECURSIVE callHooksNoOptions(_, _, _)
callHooksNoOptions(st, list, i) ==
    IF i > Len(list) THEN st
    ELSE callHooksNoOptions(ejectStart(st, list[i], JsNull, "shutdown"),
                            list, i + 1)

RECURSIVE callHooks(_, _, _)
callHooks(st, list, i) ==
    IF i > Len(list) THEN st
    ELSE callHooks(
            ejectStart(st, list[i], st.attaches[list[i]].ejectOnShutdown,
                       "shutdown"),
            list, i + 1)

ExitHandler ==
    /\ exitHooks # <<>>
    /\ Len(drains) < MaxDrains
    /\ LET list == exitHandlerList(exitHooks)
           st == callHooks([EjectState EXCEPT
                               !.exitHooks = exitHandlerClear(exitHooks)],
                           list, 1)
       IN  /\ attaches' = st.attaches
           /\ procs' = st.procs
           /\ calls' = st.calls
           /\ exitHooks' = st.exitHooks
           /\ drains' = Append(drains,
                  [list |-> list,
                   calls |-> [i \in 1..Len(list) |-> Len(calls) + i]])
    /\ UNCHANGED <<rev, hdiutil, exitHooked, exitListeners, hookLog, pin, pout>>

(***************************************************************************)
(* The program: any interleaving of calls and subprocess events.           *)
(***************************************************************************)
ExitCodes == {JsNull, JsNum(0), JsNum(1), JsNum(2)}

AttachOptions == {JsNull}

EjectOnShutdownOptions == {JsNull, JsObject, JsObject @@ [force |-> TRUE]}

CallOptions == {JsNull, JsObject @@ [force |-> TRUE]}

\* What the tool may print on an attach.
SysResponses ==
    {Response(<<FixtureDisk, FixtureVolume>>),
     Response(<<>>),
     Response(<<Entity("", TRUE)>>),
     XmlMalformed}

Next ==
    \/ \E o \in AttachOptions, e \in EjectOnShutdownOptions : AttachStart(o, e)
    \/ \E a \in 1..Len(attaches), code \in ExitCodes, out \in SysResponses :
          AttachExit(a, code, out)
    \/ \E a \in 1..Len(attaches) : AttachError(a)
    \/ \E o \in AttachOptions, e \in EjectOnShutdownOptions,
          status \in ExitCodes, error \in BOOLEAN, out \in SysResponses :
          /\ error => status = JsNull
          /\ AttachSync(o, e, status, error, out)
    \/ \E a \in 1..Len(attaches), o \in CallOptions : EjectCall(a, o)
    \/ \E c \in 1..Len(calls), code \in ExitCodes : EjectExit(c, code)
    \/ \E c \in 1..Len(calls) : EjectError(c)
    \/ \E a \in 1..Len(attaches), o \in CallOptions,
          status \in ExitCodes, error \in BOOLEAN :
          /\ error => status = JsNull
          /\ EjectSyncCall(a, o, status, error)
    \/ ExitHandler

Spec == Init /\ [][Next]_vars

(***************************************************************************)
(* Pure functions applied to every input of the bounded input sets.        *)
(***************************************************************************)
PureInit ==
    /\ rev = "hook"
    /\ hdiutil = "hdiutil"
    /\ attaches = <<>>
    /\ procs = <<>>
    /\ calls = <<>>
    /\ exitHooks = <<>>
    /\ exitHooked = FALSE
    /\ exitListeners = <<>>
    /\ drains = <<>>
    /\ hookLog = HookLogIdle
    /\ pin \in {[fn |-> "parse", xml |-> x] : x \in ParseInputs}
               \cup {[fn |-> "root", devices |-> d] : d \in RootInputs}
               \cup RunInputs
               \cup ArgsInputs
    /\ pout = PureIdle

\* _parseDevices of both parser revisions on the same document.
PureParse ==
    /\ pin.fn = "parse"
    /\ ~pout.done
    /\ pout' = [done |-> TRUE,
                dom |-> parseDevices(pin.xml),
                plist |-> parseDevicesPlist(pin.xml)]
    /\ UNCHANGED <<pin, hookLog, sysvars>>

PureFindRoot ==
    /\ pin.fn = "root"
    /\ ~pout.done
    /\ pout' = [done |-> TRUE, root |-> findRootDevice(pin.devices)]
    /\ UNCHANGED <<pin, hookLog, sysvars>>

\* The four _run functions on the same exit code, launch error and output.
\* spawnSync reports a launch error with a null status.
PureRun ==
    /\ pin.fn = "run"
    /\ ~pout.done
    /\ pout' = [done |-> TRUE,
                attach |-> runAttach("hook", pin.code, pin.xml),
                attachSync |-> runAttachSync("sync",
                    IF pin.error THEN JsNull ELSE pin.code, pin.error, pin.xml),
                eject |-> runEject(pin.code),
                ejectSync |-> runEjectSync(
                    IF pin.error THEN JsNull ELSE pin.code, pin.error)]
    /\ UNCHANGED <<pin, hookLog, sysvars>>

\* The argument lists attach and eject build for a file and options.
PureArgs ==
    /\ pin.fn = "args"
    /\ ~pout.done
    /\ pout' = [done |-> TRUE,
                attach |-> argsAttach(pin.file, pin.attachOptions),
                eject |-> argsEject(pin.file, pin.ejectOptions)]
    /\ UNCHANGED <<pin, hookLog, sysvars>>

PureNext == PureParse \/ PureFindRoot \/ PureRun \/ PureArgs

SpecPure == PureInit /\ [][PureNext]_vars

(***************************************************************************)
(* The registry of util.ts on its own, with opaque callbacks.              *)
(***************************************************************************)
Callbacks == 1..MaxCallbacks

HooksInit ==
    /\ rev = "hook"
    /\ hdiutil = "hdiutil"
    /\ attaches = <<>>
    /\ procs = <<>>
    /\ calls = <<>>
    /\ exitHooks = <<>>
    /\ exitHooked = FALSE
    /\ exitListeners = <<>>
    /\ drains = <<>>
    /\ hookLog = [added |-> [c \in Callbacks |-> 0],
                  invoked |-> [c \in Callbacks |-> 0]]
    /\ pin = [fn |-> "none"]
    /\ pout = PureIdle

\* shutdownHook(callback)
HookAdd(c) ==
    /\ hookLog.added[c] < MaxAdded
    /\ exitHooks' = shutdownHook(exitHooks, c)
    /\ exitHooked' = TRUE
    /\ hookLog' = IF InSeq(exitHooks, c) THEN hookLog
                  ELSE [hookLog EXCEPT !.added[c] = @ + 1]
    /\ UNCHANGED <<rev, hdiutil, attaches, procs, calls, exitListeners,
                   drains, pin, pout>>

\* shutdownUnhook(callback)
HookDelete(c) ==
    /\ exitHooks' = shutdownUnhook(exitHooks, c)
    /\ UNCHANGED <<rev, hdiutil, attaches, procs, calls, exitHooked,
                   exitListeners, drains, hookLog, pin, pout>>

\* exitHandler, run by the exit hook or by the uncaught exception hook.
HookExitHandler ==
    /\ exitHooked
    /\ exitHooks # <<>>
    /\ Len(drains) < MaxDrains
    /\ LET list == exitHandlerList(exitHooks)
       IN  /\ exitHooks' = exitHandlerClear(exitHooks)
           /\ hookLog' = [hookLog EXCEPT !.invoked =
                  [c \in Callbacks |-> IF InSeq(list, c) THEN @[c] + 1 ELSE @[c]]]
           /\ drains' = Append(drains, [list |-> list])
    /\ UNCHANGED <<rev, hdiutil, attaches, procs, calls, exitHooked,
                   exitListeners, pin, pout>>

HooksNext ==
    \/ \E c \in Callbacks : HookAdd(c)
    \/ \E c \in Callbacks : HookDelete(c)
    \/ HookExitHandler

SpecHooks == HooksInit /\ [][HooksNext]_vars

\* C5: across any sequence of shutdownHook, shutdownUnhook and runs of the
\* exit handler (which may run more than once), a callback is invoked at
\* most once for each time it was added to the registry.
C5_InvokedAtMostOnce ==
    \A c \in DOMAIN hookLog.invoked :
        hookLog.invoked[c] <= hookLog.added[c]

\* C5 witness: the exit handler ran twice and a callback of the first run,
\* added once, was invoked once.
C5_Witness ==
    /\ Len(drains) = 2
    /\ \E c \in DOMAIN hookLog.invoked :
          /\ hookLog.added[c] = 1
          /\ hookLog.invoked[c] = 1
          /\ InSeq(drains[1].list, c)

(***************************************************************************)
(* Properties of the pure functions (specification SpecPure).              *)
(***************************************************************************)
\* The document is a dictionary whose system-entities is an array.
IsResponse(xml) ==
    /\ xml.type = "plist"
    /\ xml.root.type = "dict"
    /\ "system-entities" \in DOMAIN xml.root.entries
    /\ xml.root.entries["system-entities"].type = "array"

ItemsOf(xml) == xml.root.entries["system-entities"].items

ParseDone == pin.fn = "parse" /\ pout.done

RootDone == pin.fn = "root" /\ pout.done

\* C3: root device selection returns the first device, in sequence order,
\* whose devEntry length is minimal (ties keep the earlier device); an empty
\* sequence yields no root device; the result is an element of the input.
C3_RootIsFirstShortest ==
    RootDone =>
        LET ds == pin.devices
            r == pout.root
        IN  IF Len(ds) = 0 THEN r = JsNull
            ELSE /\ r.type = "object"
                 /\ r.index \in 1..Len(ds)
                 /\ r.device = ds[r.index]
                 /\ \A j \in 1..Len(ds) :
                        Len(ds[j].devEntry) >= Len(r.device.devEntry)
                 /\ \A j \in 1..(r.index - 1) :
                        Len(ds[j].devEntry) > Len(r.device.devEntry)

\* C3 witness: a later, different device ties with the chosen one, which is
\* not the first of the list.
C3_Witness ==
    /\ RootDone
    /\ pout.root.type = "object"
    /\ pout.root.index > 1
    /\ \E j \in (pout.root.index + 1)..Len(pin.devices) :
          /\ pin.devices[j] # pout.root.device
          /\ Len(pin.devices[j].devEntry) = Len(pout.root.device.devEntry)

\* An entity that is not a dictionary, lacks a required key, or has a
\* required key of the wrong type.
BadEntity(e) ==
    \/ e.type # "dict"
    \/ /\ e.type = "dict"
       /\ \/ "dev-entry" \notin DOMAIN e.entries
          \/ "potentially-mountable" \notin DOMAIN e.entries
          \/ /\ "dev-entry" \in DOMAIN e.entries
             /\ e.entries["dev-entry"].type # "string"
          \/ /\ "potentially-mountable" \in DOMAIN e.entries
             /\ e.entries["potentially-mountable"].type # "boolean"

\* The parse threw a parse error and handed back no device list.
ParseFailed(res) ==
    /\ ~res.ok
    /\ res.kind = "ParseError"
    /\ "value" \notin DOMAIN res

\* C8: a response with any bad entity fails the whole parse: no device list
\* is returned (not even the entities before the bad one), and the bad
\* record is never skipped.
C8_BadEntityFailsParse ==
    (/\ ParseDone
     /\ IsResponse(pin.xml)
     /\ \E i \in 1..Len(ItemsOf(pin.xml)) : BadEntity(ItemsOf(pin.xml)[i]))
    => (ParseFailed(pout.dom) /\ ParseFailed(pout.plist))

\* C8 witness: a good entity followed by a bad one, and the parse failed.
C8_Witness ==
    /\ ParseDone
    /\ IsResponse(pin.xml)
    /\ Len(ItemsOf(pin.xml)) = 2
    /\ ~BadEntity(ItemsOf(pin.xml)[1])
    /\ parseEntity(ItemsOf(pin.xml)[1]).ok
    /\ BadEntity(ItemsOf(pin.xml)[2])
    /\ ParseFailed(pout.dom)

\* Some dictionary entity has an optional key with a value that is no string.
HasMistypedOptional(items) ==
    \E i \in 1..Len(items) : \E k \in OptionalKeys :
        /\ items[i].type = "dict"
        /\ k \in DOMAIN items[i].entries
        /\ items[i].entries[k].type # "string"

\* The optional fields of the devices are those of the entities.
OptionalFieldsExact(items, res) ==
    \A i \in 1..Len(items) : \A k \in OptionalKeys :
        IF k \in DOMAIN items[i].entries
        THEN /\ FieldOf(k) \in DOMAIN res.value[i]
             /\ res.value[i][FieldOf(k)] = items[i].entries[k].s
        ELSE FieldOf(k) \notin DOMAIN res.value[i]

\* C9: for content-hint, unmapped-content-hint, volume-kind and mount-point,
\* a present string value (the empty string too) is stored exactly, a present
\* value of another type fails the parse, an absent key leaves the field
\* unset; so an empty string differs from an absent key in the Device.
C9_OptionalFields ==
    (ParseDone /\ IsResponse(pin.xml)) =>
        \A res \in {pout.dom, pout.plist} :
            /\ HasMistypedOptional(ItemsOf(pin.xml)) => ParseFailed(res)
            /\ res.ok => /\ Len(res.value) = Len(ItemsOf(pin.xml))
                         /\ OptionalFieldsExact(ItemsOf(pin.xml), res)

\* C9 witness: one device has volumeKind "" and the next has none.
C9_Witness ==
    /\ ParseDone
    /\ IsResponse(pin.xml)
    /\ pout.dom.ok /\ pout.plist.ok
    /\ Len(pout.dom.value) = 2
    /\ "volume-kind" \in DOMAIN ItemsOf(pin.xml)[1].entries
    /\ "volumeKind" \in DOMAIN pout.dom.value[1]
    /\ pout.dom.value[1]["volumeKind"] = ""
    /\ "volumeKind" \notin DOMAIN pout.dom.value[2]

\* C10: a successful parse returns one Device per element of system-entities,
\* in the order of the array, with the element's dev-entry and
\* potentially-mountable; an empty array gives an empty sequence, no error.
C10_OneDevicePerEntityInOrder ==
    (ParseDone /\ IsResponse(pin.xml)) =>
        \A res \in {pout.dom, pout.plist} :
            /\ res.ok =>
                 /\ Len(res.value) = Len(ItemsOf(pin.xml))
                 /\ \A i \in 1..Len(res.value) :
                      /\ res.value[i].devEntry
                            = ItemsOf(pin.xml)[i].entries["dev-entry"].s
                      /\ res.value[i].potentiallyMountable
                            = ItemsOf(pin.xml)[i].entries["potentially-mountable"].b
            /\ ItemsOf(pin.xml) = <<>> => res = Ok(<<>>)

\* C10 witness: two entities with different dev-entry parsed in order.
C10_Witness ==
    /\ ParseDone
    /\ IsResponse(pin.xml)
    /\ pout.dom.ok /\ pout.plist.ok
    /\ Len(pout.dom.value) = 2
    /\ pout.dom.value[1].devEntry = "/dev/disk42"
    /\ pout.dom.value[2].devEntry = "/dev/disk42s1"
    /\ pout.dom.value[1].potentiallyMountable # pout.dom.value[2].potentiallyMountable

\* A numeric exit code other than 0.
NonZero(code) == code.type = "number" /\ code.n # 0

\* The operation threw the exit code error of the given kind and code.
IsExitFailure(res, kind, code) ==
    /\ ~res.ok
    /\ res.kind = kind
    /\ res.code = code

RunDone == pin.fn = "run" /\ pout.done

\* C7: for attach and eject (and their sync variants, when the tool could be
\* started), the exit code check fails exactly when the exit code is neither
\* 0 nor null, and the error reports the code; on 0 or null the operation
\* proceeds (attach goes on to parse the output, eject returns).
C7_FailsIffNonZeroExit ==
    RunDone =>
        /\ IF NonZero(pin.code)
           THEN /\ IsExitFailure(pout.attach.result, "AttachFailed", pin.code)
                /\ IsExitFailure(pout.eject, "EjectFailed", pin.code)
           ELSE /\ pout.attach.parsed
                /\ pout.attach.result = parseDevices(pin.xml)
                /\ pout.eject = Ok(JsUndefined)
        /\ ~pin.error =>
             IF NonZero(pin.code)
             THEN /\ IsExitFailure(pout.attachSync.result, "AttachFailed", pin.code)
                  /\ IsExitFailure(pout.ejectSync, "EjectFailed", pin.code)
             ELSE /\ pout.attachSync.parsed
                  /\ pout.attachSync.result = parseDevices(pin.xml)
                  /\ pout.ejectSync = Ok(JsUndefined)

\* C7 witness: the tool ended without a numeric code (null) and both
\* operations went on: the output was parsed into devices, eject returned.
C7_Witness ==
    /\ RunDone
    /\ pin.code = JsNull
    /\ ~pin.error
    /\ pout.attach.parsed
    /\ pout.attach.result.ok
    /\ Len(pout.attach.result.value) = 2
    /\ pout.eject.ok
    /\ pout.ejectSync.ok

(***************************************************************************)
(* Properties of the program (specification Spec).                         *)
(***************************************************************************)
\* The process-wide registry of shutdown callbacks of the loaded revision.
Registry == exitHooks \o exitListeners

CallsOf(a) == {c \in 1..Len(calls) : calls[c].attach = a}

EjectProcsOf(a) ==
    {p \in 1..Len(procs) : procs[p].kind = "eject" /\ procs[p].owner = a}

\* The attach a returns in this step (attach after its await, or attachSync).
Returns(a) ==
    /\ a <= Len(attaches')
    /\ attaches'[a].pc = "returned"
    /\ IF a <= Len(attaches) THEN attaches[a].pc = "running" ELSE TRUE

\* The options object has force set to true.
ForceTrue(options) ==
    /\ options.type = "object"
    /\ "force" \in DOMAIN options
    /\ options.force = TRUE

InArgs(args, x) == \E i \in 1..Len(args) : args[i] = x

\* The explicit calls of the capability of a so far: one, which invoked the
\* tool and returned.
CalledOnceWithSuccess(a) ==
    /\ Cardinality(CallsOf(a)) = 1
    /\ \A c \in CallsOf(a) :
          /\ calls[c].via = "explicit"
          /\ calls[c].pc = "returned"
          /\ calls[c].proc # 0

\* C1: calling the eject capability twice in sequence, the first call having
\* completed successfully, invokes the external eject tool exactly once: the
\* second call is a no-op and raises no error.
C1_SecondCallIsNoOp ==
    [][\A a \in 1..Len(attaches) : \A o \in CallOptions :
          (CalledOnceWithSuccess(a) /\ EjectCall(a, o))
          => /\ procs' = procs
             /\ calls'[Len(calls')].pc = "returned"
             /\ calls'[Len(calls')].proc = 0]_vars

\* C2: for every successful attach with a non-empty device list, the first
\* call of the eject capability invokes the external eject with the devEntry
\* of the root device as target, and with -force iff the options of the call
\* have force true.
C2_FirstCallEjectsRoot ==
    \A a \in 1..Len(attaches) :
        (/\ attaches[a].pc = "returned"
         /\ attaches[a].result.value # <<>>
         /\ CallsOf(a) # {})
        => LET c == calls[CHOOSE x \in CallsOf(a) : \A y \in CallsOf(a) : x <= y]
               root == findRootDevice(attaches[a].result.value)
           IN  /\ c.proc # 0
               /\ procs[c.proc].kind = "eject"
               /\ procs[c.proc].args[Len(procs[c.proc].args)]
                     = root.device.devEntry
               /\ InArgs(procs[c.proc].args, "-force") <=> ForceTrue(c.options)

\* C4: a successful attach registers a shutdown callback iff the auto-eject
\* argument was non-null and the device list has a root device; otherwise
\* attach leaves the registry unchanged.
C4_RegistersIffAutoEject ==
    [][\A a \in 1..MaxAttach :
          Returns(a) =>
            IF /\ attaches'[a].ejectOnShutdown # JsNull
               /\ findRootDevice(attaches'[a].result.value) # JsNull
            THEN Registry' = Append(Registry, a)
            ELSE Registry' = Registry]_vars

\* The attach a has failed with the exit code error for `code`: nothing was
\* parsed, no device list exists, and no eject capability was handed out.
AttachFailedWith(a, code) ==
    /\ attaches[a].pc = "threw"
    /\ attaches[a].result = ExitError("AttachFailed", code)
    /\ ~attaches[a].parsed
    /\ "value" \notin DOMAIN attaches[a].result
    /\ CallsOf(a) = {}

\* C6: when the attach subprocess exits with a non-zero code, attach fails
\* with an error carrying that code, the output is never parsed, and no
\* device list and no eject capability are returned.
C6_NonZeroExitFailsAttach ==
    [][/\ \A a \in 1..Len(attaches) : \A code \in ExitCodes :
            \A out \in SysResponses :
              (NonZero(code) /\ AttachExit(a, code, out))
              => (AttachFailedWith(a, code)' /\ Registry' = Registry)
       /\ \A o \in AttachOptions : \A e \in EjectOnShutdownOptions :
            \A status \in ExitCodes : \A out \in SysResponses :
              \A a \in {Len(attaches) + 1} :
                (NonZero(status) /\ AttachSync(o, e, status, FALSE, out))
                => (AttachFailedWith(a, status)' /\ Registry' = Registry)]_vars

\* C6 witness: an attach that asked for auto-eject failed with exit code 2.
C6_Witness ==
    \E a \in 1..Len(attaches) :
        /\ attaches[a].ejectOnShutdown # JsNull
        /\ AttachFailedWith(a, JsNum(2))
        /\ Registry = <<>>

(***************************************************************************)
(* Further properties of the pure functions (specification SpecPure).      *)
(***************************************************************************)
\* C11: when the attach process exits successfully (code 0 or null) but its
\* stdout is empty or not well-formed, has a root that is no dictionary, or
\* has system-entities missing or not an array, the parse fails with a parse
\* error and so does attach; an empty device list is never returned instead.
C11_BadResponseFailsAttach ==
    /\ (ParseDone /\ ~IsResponse(pin.xml))
          => (ParseFailed(pout.dom) /\ ParseFailed(pout.plist))
    /\ (RunDone /\ ~NonZero(pin.code) /\ ~IsResponse(pin.xml))
          => /\ pout.attach.parsed
             /\ ParseFailed(pout.attach.result)
             /\ ~pin.error => /\ pout.attachSync.parsed
                              /\ ParseFailed(pout.attachSync.result)

\* C11 witness: exit code 0 with a system-entities that is a string, and
\* attach failed with the parse error.
C11_Witness ==
    /\ RunDone
    /\ pin.code = JsNum(0)
    /\ ~pin.error
    /\ pin.xml = XmlPlist(VDict("system-entities" :> VString("x")))
    /\ ParseFailed(pout.attach.result)
    /\ ParseFailed(pout.attachSync.result)

ArgsDone == pin.fn = "args" /\ pout.done

\* The options object has the named option set to true.
OptionTrue(options, name) ==
    /\ options.type = "object"
    /\ name \in DOMAIN options
    /\ options[name] = TRUE

StartsWithDash(str) == Len(str) > 0 /\ SubSeq(str, 1, 1) = "-"

\* The sanitized file argument of the specification.
Sanitized(file) == IF StartsWithDash(file) THEN "./" \o file ELSE file

Count(b) == IF b THEN 1 ELSE 0

\* C13: for every file and every readonly, nobrowse in {true, false, unset}
\* (and null options) the attach argument list is exactly "attach", "-plist",
\* "-readonly" iff readonly is true, "-nobrowse" iff nobrowse is true, then
\* the sanitized file as the last element.
C13_AttachArgs ==
    ArgsDone =>
        LET args == pout.attach
            ro == OptionTrue(pin.attachOptions, "readonly")
            nb == OptionTrue(pin.attachOptions, "nobrowse")
        IN  /\ Len(args) = 3 + Count(ro) + Count(nb)
            /\ args[1] = "attach"
            /\ args[2] = "-plist"
            /\ ro => args[3] = "-readonly"
            /\ nb => args[Len(args) - 1] = "-nobrowse"
            /\ args[Len(args)] = Sanitized(pin.file)

\* C13 witness: both options true and a file that starts with '-'.
C13_Witness ==
    /\ ArgsDone
    /\ pin.file = "-a.dmg"
    /\ pout.attach = <<"attach", "-plist", "-readonly", "-nobrowse", "./-a.dmg">>

\* C14: for every target and every force in {true, false, unset} (and null
\* options) the eject argument list is exactly "eject", "-force" iff force
\* is true, then the sanitized target as the last element.
C14_EjectArgs ==
    ArgsDone =>
        LET args == pout.eject
            force == OptionTrue(pin.ejectOptions, "force")
        IN  /\ Len(args) = 2 + Count(force)
            /\ args[1] = "eject"
            /\ force => args[2] = "-force"
            /\ args[Len(args)] = Sanitized(pin.file)

\* C14 witness: force true gives eject, -force, target; force false does not.
C14_Witness ==
    /\ ArgsDone
    /\ pin.file = "/dev/disk42"
    /\ OptionTrue(pin.ejectOptions, "force")
    /\ pout.eject = <<"eject", "-force", "/dev/disk42">>

\* The option flags an argument list may carry.
OptionFlags == {"-plist", "-readonly", "-nobrowse", "-force"}

\* C15 as stated: for an input that starts with '-' the list contains "./"
\* followed by the input and does not contain the raw input as an element;
\* any other input appears unchanged; the last element never starts with '-'.
C15_RawInputNeverAnElement ==
    ArgsDone =>
        \A args \in {pout.attach, pout.eject} :
            /\ IF StartsWithDash(pin.file)
               THEN /\ InArgs(args, "./" \o pin.file)
                    /\ ~InArgs(args, pin.file)
               ELSE InArgs(args, pin.file)
            /\ ~StartsWithDash(args[Len(args)])

\* C15 amended: for an input that starts with '-' the last element of the
\* list is "./" followed by the input, and the raw input is an element only
\* as an option flag the list carries before it; any other input is the last
\* element unchanged; the last element never starts with '-'.
C15_FileArgSanitized ==
    ArgsDone =>
        \A args \in {pout.attach, pout.eject} :
            /\ IF StartsWithDash(pin.file)
               THEN /\ args[Len(args)] = "./" \o pin.file
                    /\ \A i \in 1..Len(args) :
                          args[i] = pin.file
                          => (i < Len(args) /\ pin.file \in OptionFlags)
               ELSE args[Len(args)] = pin.file
            /\ ~StartsWithDash(args[Len(args)])

\* C15 witness: the file is "-plist": the list ends with "./-plist" and
\* carries the flag "-plist".
C15_Witness ==
    /\ ArgsDone
    /\ pin.file = "-plist"
    /\ pout.attach[Len(pout.attach)] = "./-plist"
    /\ InArgs(pout.attach, "-plist")

(***************************************************************************)
(* Further properties of the program (specification Spec).                 *)
(***************************************************************************)
\* The device list a returned attach handed back.
DevicesOf(a) == attaches[a].result.value

\* C12: every Device of the device list returned by a successful attach has
\* a non-empty devEntry, so the root device never has an empty devEntry.
C12_DevEntryNeverEmpty ==
    \A a \in 1..Len(attaches) :
        attaches[a].pc = "returned" =>
            /\ \A i \in 1..Len(DevicesOf(a)) : DevicesOf(a)[i].devEntry # ""
            /\ findRootDevice(DevicesOf(a)).type = "object"
                  => findRootDevice(DevicesOf(a)).device.devEntry # ""

\* C16: when attach succeeds with an empty device list, no root device is
\* selected, no shutdown callback is registered (none is ever run by the exit
\* handler), and every call of the eject capability returns without starting
\* the external tool and without error.
C16_EmptyListNoOp ==
    \A a \in 1..Len(attaches) :
        (attaches[a].pc = "returned" /\ DevicesOf(a) = <<>>) =>
            /\ findRootDevice(DevicesOf(a)) = JsNull
            /\ ~Truthy(attaches[a].rootDevPath)
            /\ ~InSeq(Registry, a)
            /\ \A d \in 1..Len(drains) : ~InSeq(drains[d].list, a)
            /\ EjectProcsOf(a) = {}
            /\ \A c \in CallsOf(a) :
                  /\ calls[c].pc = "returned"
                  /\ calls[c].proc = 0
                  /\ calls[c].result = Ok(JsUndefined)

\* C16 witness: an attach with auto-eject options returned an empty list
\* and its capability was called twice.
C16_Witness ==
    \E a \in 1..Len(attaches) :
        /\ attaches[a].pc = "returned"
        /\ DevicesOf(a) = <<>>
        /\ attaches[a].ejectOnShutdown # JsNull
        /\ Cardinality(CallsOf(a)) = 2

\* C17: once the eject capability of an attach has been called explicitly,
\* its shutdown callback is not in the registry and no later run of the exit
\* handler ejects for that attach (calls are numbered in the order they were
\* made); removing a callback that is not in the registry leaves the registry
\* unchanged.
C17_ExplicitEjectUnhooks ==
    /\ \A a \in 1..Len(attaches) : \A c \in CallsOf(a) :
          calls[c].via = "explicit" =>
              /\ ~InSeq(Registry, a)
              /\ \A c2 \in CallsOf(a) : calls[c2].via = "shutdown" => c2 < c
    /\ \A x \in 1..(MaxAttach + 1) :
          ~InSeq(exitHooks, x) => shutdownUnhook(exitHooks, x) = exitHooks

\* C17 witness: an auto-eject attach with a root device was ejected
\* explicitly, and a later run of the exit handler ran other callbacks only.
C17_Witness ==
    \E a \in 1..Len(attaches) : \E c \in CallsOf(a) : \E d \in 1..Len(drains) :
        /\ attaches[a].ejectOnShutdown # JsNull
        /\ Truthy(findRootDevice(DevicesOf(a)))
        /\ DevicesOf(a)[1].devEntry # ""
        /\ calls[c].via = "explicit"
        /\ drains[d].calls[1] > c
        /\ ~InSeq(drains[d].list, a)

(***************************************************************************)
(* exitHandler (util.ts) step by step: the snapshot, the synchronous       *)
(* `list.map(async f => f())` one callback at a time (a callback may call  *)
(* shutdownHook / shutdownUnhook while it runs), the callbacks' promises,  *)
(* and `exitHandler().then(done, done)` of the exit hook.                  *)
(***************************************************************************)
\* Most callbacks settle or throw; what a callback does when it is called.
Behaviours == {"returns", "throws"}

\* exitHandler up to the map: `const list = [...exitHooks]`.
exitHandlerBegin(hooks) ==
    [atStart |-> hooks, list |-> exitHandlerList(hooks), invoked |-> <<>>,
     outcome |-> <<>>, aborted |-> FALSE, done |-> FALSE,
     added |-> {}, removed |-> {}]

\* Mutant of snapshotOf: the map iterates the live registry after the list.
snapshotLive(drain, hooks) == drain.list \o hooks

\* The array the map iterates: the copy taken at the start.
snapshotOf(drain, hooks) == drain.list

\* Mutant of mapStep: `list.map(f => f())`, a throw leaves the map.
mapStepAbort(drain, callback, behaviour) ==
    IF behaviour = "throws"
    THEN [drain EXCEPT !.invoked = Append(@, callback),
                       !.outcome = Append(@, "rejected"),
                       !.aborted = TRUE]
    ELSE [drain EXCEPT !.invoked = Append(@, callback),
                       !.outcome = Append(@, "pending")]

\* One element of `list.map(async f => f())`: the async arrow turns a throw
\* of f into a rejected promise and the map goes on.
mapStep(drain, callback, behaviour) ==
    [drain EXCEPT !.invoked = Append(@, callback),
                  !.outcome = Append(@, IF behaviour = "throws"
                                        THEN "rejected" ELSE "pending")]

\* The map has returned (or was left by a throw).
MapFinished(drain, hooks) ==
    drain.aborted \/ Len(drain.invoked) >= Len(snapshotOf(drain, hooks))

\* Promise.all over the promises of the map.
promiseAll(outcome) ==
    IF \E i \in 1..Len(outcome) : outcome[i] = "rejected" THEN "rejected"
    ELSE IF \A i \in 1..Len(outcome) : outcome[i] = "resolved" THEN "resolved"
    ELSE "pending"

\* The exit hook or the uncaught exception hook calls exitHandler.
DrainCall ==
    /\ exitHooked
    /\ exitHooks # <<>>
    /\ Len(drains) < MaxDrains
    /\ \A d \in 1..Len(drains) : MapFinished(drains[d], exitHooks)
    /\ drains' = Append(drains, exitHandlerBegin(exitHooks))
    /\ exitHooks' = exitHandlerClear(exitHooks)
    /\ UNCHANGED <<rev, hdiutil, attaches, procs, calls, exitHooked,
                   exitListeners, hookLog, pin, pout>>

\* The map calls the next callback of the array.
DrainInvoke(d, behaviour) ==
    /\ ~MapFinished(drains[d], exitHooks)
    /\ LET callback ==
               snapshotOf(drains[d], exitHooks)[Len(drains[d].invoked) + 1]
       IN  drains' = [drains EXCEPT ![d] = mapStep(@, callback, behaviour)]
    /\ UNCHANGED <<rev, hdiutil, attaches, procs, calls, exitHooks, exitHooked,
                   exitListeners, hookLog, pin, pout>>

\* The promise of a callback settles (after the synchronous map).
DrainSettle(d, i, how) ==
    /\ MapFinished(drains[d], exitHooks)
    /\ i \in 1..Len(drains[d].outcome)
    /\ drains[d].outcome[i] = "pending"
    /\ drains' = [drains EXCEPT ![d].outcome[i] = how]
    /\ UNCHANGED <<rev, hdiutil, attaches, procs, calls, exitHooks, exitHooked,
                   exitListeners, hookLog, pin, pout>>

\* `exitHandler().then(done, done)`: the promise of exitHandler has settled.
DrainDone(d) ==
    /\ MapFinished(drains[d], exitHooks)
    /\ ~drains[d].done
    /\ drains[d].aborted \/ promiseAll(drains[d].outcome) # "pending"
    /\ drains' = [drains EXCEPT ![d].done = TRUE]
    /\ UNCHANGED <<rev, hdiutil, attaches, procs, calls, exitHooks, exitHooked,
                   exitListeners, hookLog, pin, pout>>

\* The log of a call of exitHandler after callback c was registered / removed:
\* noted while the call is in progress (its done callback not yet called).
NoteAdded(drain, c) ==
    IF drain.done THEN drain ELSE [drain EXCEPT !.added = @ \cup {c}]

NoteRemoved(drain, c) ==
    IF drain.done \/ ~InSeq(drain.atStart, c) THEN drain
    ELSE [drain EXCEPT !.removed = @ \cup {c}]

\* shutdownHook(callback) while calls of exitHandler may be in progress.
\* A callback is registered at most MaxAdded times.
DrainHookAdd(c) ==
    /\ hookLog.added[c] < MaxAdded
    /\ exitHooks' = shutdownHook(exitHooks, c)
    /\ exitHooked' = TRUE
    /\ hookLog' = [hookLog EXCEPT !.added[c] = @ + 1]
    /\ drains' = [d \in 1..Len(drains) |-> NoteAdded(drains[d], c)]
    /\ UNCHANGED <<rev, hdiutil, attaches, procs, calls, exitListeners,
                   pin, pout>>

\* shutdownUnhook(callback) while calls of exitHandler may be in progress.
DrainHookDelete(c) ==
    /\ exitHooks' = shutdownUnhook(exitHooks, c)
    /\ drains' = [d \in 1..Len(drains) |-> NoteRemoved(drains[d], c)]
    /\ UNCHANGED <<rev, hdiutil, attaches, procs, calls, exitHooked,
                   exitListeners, hookLog, pin, pout>>

DrainNext ==
    \/ DrainCall
    \/ \E d \in 1..Len(drains), b \in Behaviours : DrainInvoke(d, b)
    \/ \E d \in 1..Len(drains), i \in 1..MaxCallbacks,
          how \in {"resolved", "rejected"} : DrainSettle(d, i, how)
    \/ \E d \in 1..Len(drains) : DrainDone(d)
    \/ \E c \in Callbacks : DrainHookAdd(c)
    \/ \E c \in Callbacks : DrainHookDelete(c)

SpecDrain == HooksInit /\ [][DrainNext]_vars

(***************************************************************************)
(* Properties of the exit handler (specification SpecDrain).               *)
(***************************************************************************)
\* q is p cut after some element.
IsPrefix(q, p) ==
    /\ Len(q) <= Len(p)
    /\ \A i \in 1..Len(q) : q[i] = p[i]

\* C18: a call of the exit handler takes a snapshot of the registry, clears
\* the registry and runs the snapshot: the callbacks it invokes are those of
\* the registry at the call, in order, whatever is registered or removed
\* while the call is in progress: a callback registered meanwhile is not
\* invoked by this call (until the call is done the registry holds nothing
\* but such callbacks), and a callback removed after the snapshot is still
\* invoked.
C18_DrainRunsSnapshot ==
    \A d \in 1..Len(drains) :
        /\ drains[d].list = drains[d].atStart
        /\ IsPrefix(drains[d].invoked, drains[d].atStart)
        /\ MapFinished(drains[d], exitHooks)
              => drains[d].invoked = drains[d].atStart
        /\ \A c \in drains[d].added :
              ~InSeq(drains[d].atStart, c) => ~InSeq(drains[d].invoked, c)
        /\ (d = Len(drains) /\ ~drains[d].done) =>
              \A i \in 1..Len(exitHooks) : exitHooks[i] \in drains[d].added

\* C18 witness: the call ran its whole snapshot; one callback was removed
\* from the registry after the snapshot and was invoked all the same, and
\* another, registered during the call, was not invoked and is registered.
C18_Witness ==
    \E d \in 1..Len(drains) : \E c1, c2 \in Callbacks :
        /\ MapFinished(drains[d], exitHooks)
        /\ c1 \in drains[d].removed
        /\ InSeq(drains[d].invoked, c1)
        /\ c2 \in drains[d].added
        /\ ~InSeq(drains[d].atStart, c2)
        /\ ~InSeq(drains[d].invoked, c2)
        /\ InSeq(exitHooks, c2)

\* C19: in a call of the exit handler every callback of the snapshot is
\* invoked, also when another callback of the same call throws or rejects:
\* a failure never leaves the map.
C19_FailureStartsTheRest ==
    \A d \in 1..Len(drains) :
        /\ ~drains[d].aborted
        /\ MapFinished(drains[d], exitHooks)
              => /\ Len(drains[d].invoked) = Len(drains[d].list)
                 /\ \A i \in 1..Len(drains[d].list) :
                       drains[d].invoked[i] = drains[d].list[i]

\* C19 witness: the first callback of a snapshot of two threw, and the
\* second was invoked after it.
C19_Witness ==
    \E d \in 1..Len(drains) :
        /\ Len(drains[d].list) = 2
        /\ Len(drains[d].invoked) = 2
        /\ drains[d].outcome[1] = "rejected"
        /\ drains[d].outcome[2] = "pending"

\* C20: the done callback of the exit hook is called only after every
\* callback of the snapshot has settled (resolved or rejected).
C20_DoneAfterAllSettled ==
    \A d \in 1..Len(drains) :
        drains[d].done =>
            /\ Len(drains[d].outcome) = Len(drains[d].list)
            /\ \A i \in 1..Len(drains[d].outcome) :
                  drains[d].outcome[i] \in {"resolved", "rejected"}

(***************************************************************************)
(* Properties of the program (specification Spec), continued.              *)
(***************************************************************************)
AttachProcsOf(a) ==
    {p \in 1..Len(procs) : procs[p].kind = "attach" /\ procs[p].owner = a}

\* Every attach call has started the tool once, every call of an eject
\* capability at most once, and no subprocess belongs to no call.
OneProcPerCall ==
    /\ \A a \in 1..Len(attaches) : AttachProcsOf(a) = {attaches[a].proc}
    /\ \A c \in 1..Len(calls) :
          calls[c].proc # 0 =>
              /\ procs[calls[c].proc].kind = "eject"
              /\ \A c2 \in 1..Len(calls) :
                    calls[c2].proc = calls[c].proc => c2 = c
    /\ \A p \in 1..Len(procs) :
          procs[p].kind = "eject" =>
              \E c \in 1..Len(calls) : calls[c].proc = p

\* The operation record `op` ended by throwing `error`.
ThrewWith(op, error) == op.pc = "threw" /\ op.result = error

\* C21: each call of attach or of eject starts the external tool exactly
\* once and never retries; a launch error, a non-zero exit code or malformed
\* output ends the call by throwing that error to its caller.
C21_OneStartNoRetry ==
    [][/\ OneProcPerCall'
       /\ \A a \in 1..Len(attaches) :
            /\ AttachError(a) => ThrewWith(attaches'[a], LaunchError)
            /\ \A code \in ExitCodes : \A out \in SysResponses :
                  AttachExit(a, code, out) =>
                      /\ Len(procs') = Len(procs)
                      /\ NonZero(code) =>
                            ThrewWith(attaches'[a], ExitError("AttachFailed", code))
                      /\ (~NonZero(code) /\ ~parseDevices(out).ok) =>
                            ThrewWith(attaches'[a], parseDevices(out))
       /\ \A c \in 1..Len(calls) :
            /\ EjectError(c) => ThrewWith(calls'[c], LaunchError)
            /\ \A code \in ExitCodes :
                  (NonZero(code) /\ EjectExit(c, code)) =>
                      /\ Len(procs') = Len(procs)
                      /\ ThrewWith(calls'[c], ExitError("EjectFailed", code))
       /\ \A status \in ExitCodes : \A error \in BOOLEAN :
            \A failure \in {IF error THEN LaunchError
                             ELSE ExitError("EjectFailed", status)} :
              \A a \in 1..Len(attaches) : \A o \in CallOptions :
                (/\ error \/ NonZero(status)
                 /\ error => status = JsNull
                 /\ Truthy(attaches[a].rootDevPath)
                 /\ EjectSyncCall(a, o, status, error))
                => ThrewWith(calls'[Len(calls')], failure)]_vars

\* C21 witness: one attach could not start the tool, and an eject of another
\* attach failed with exit code 1; each has its one subprocess.
C21_Witness ==
    \E a \in 1..Len(attaches) : \E c \in 1..Len(calls) :
        /\ ThrewWith(attaches[a], LaunchError)
        /\ ThrewWith(calls[c], ExitError("EjectFailed", JsNum(1)))
        /\ Cardinality(EjectProcsOf(calls[c].attach)) = 1
        /\ Len(procs) = 3

(***************************************************************************)
(* The program started by `new Mounter(options)` for every options value   *)
(* of ConstructorOptions; pin keeps the options the constructor was given. *)
(***************************************************************************)
ToolInit ==
    /\ rev \in Revisions
    /\ pin \in {[fn |-> "new", options |-> o] : o \in ConstructorOptions}
    /\ hdiutil = Constructor(pin.options)
    /\ attaches = <<>>
    /\ procs = <<>>
    /\ calls = <<>>
    /\ exitHooks = <<>>
    /\ exitHooked = FALSE
    /\ exitListeners = <<>>
    /\ drains = <<>>
    /\ hookLog = HookLogIdle
    /\ pout = PureIdle

SpecTool == ToolInit /\ [][Next]_vars

\* The path the constructor was asked for: the hdiutil option when it is a
\* non-empty string, "hdiutil" otherwise.
RequestedTool(options) ==
    IF /\ options # JsNull
       /\ "hdiutil" \in DOMAIN options
       /\ options.hdiutil.type = "string"
       /\ options.hdiutil.s # ""
    THEN options.hdiutil.s
    ELSE "hdiutil"

\* C22: the tool path is the hdiutil option given at construction, or
\* "hdiutil" when the options are null or the option is unset, null or
\* empty; no operation changes it, and every subprocess is started with it.
C22_ToolPath ==
    /\ hdiutil = RequestedTool(pin.options)
    /\ \A p \in 1..Len(procs) : procs[p].cmd = RequestedTool(pin.options)

\* C22 witness: with the option set to "/tmp/dummy", an attach and an eject
\* subprocess have been started.
C22_Witness ==
    /\ pin.options = JsObject @@ [hdiutil |-> JsStr("/tmp/dummy")]
    /\ \E p, q \in 1..Len(procs) :
          /\ procs[p].kind = "attach" /\ procs[p].cmd = "/tmp/dummy"
          /\ procs[q].kind = "eject" /\ procs[q].cmd = "/tmp/dummy"

\* C22 witness of the default: with the option set to the empty string, a
\* subprocess has been started with "hdiutil".
C22_WitnessDefault ==
    /\ pin.options = JsObject @@ [hdiutil |-> JsStr("")]
    /\ \E p \in 1..Len(procs) : procs[p].cmd = "hdiutil"

\* The record attach (the asynchronous variant) leaves for attach number a
\* when its subprocess p exits with `code` and has written `stdout`.
AsyncAttachOutcome(options, ejectOnShutdown, a, p, code, stdout) ==
    Settled(NewAttach(FALSE, options, ejectOnShutdown, p), a,
            runAttach(rev, code, stdout))

\* A call of a capability of attach a has run the tool with success.
EjectSucceeded(a) ==
    \E c \in CallsOf(a) :
        calls[c].pc = "returned" /\ calls[c].proc # 0 /\ calls[c].result.ok

\* C23: attachSync starts the tool with the argument list of attach and
\* leaves the device list and root device attach leaves for the same exit
\* status and output; ejectSync starts the tool with the argument list of
\* eject and ends as eject ends; the eject and ejectSync capabilities of one
\* attach share one ejected state: after either has succeeded, a call of
\* either starts no subprocess and returns.
C23_SyncAsAsync ==
    [][/\ \A o \in AttachOptions : \A e \in EjectOnShutdownOptions :
          \A status \in ExitCodes : \A out \in SysResponses :
            AttachSync(o, e, status, FALSE, out) =>
              /\ procs'[Len(procs')].args = argsAttach(ImageFile, o)
              /\ procs'[Len(procs')].cmd = hdiutil
              /\ attaches'[Len(attaches')] =
                    [AsyncAttachOutcome(o, e, Len(attaches) + 1, Len(procs) + 1,
                                        status, out)
                       EXCEPT !.sync = TRUE]
       /\ \A a \in 1..Len(attaches) : \A o \in CallOptions :
            /\ \A status \in ExitCodes :
                  (/\ Truthy(attaches[a].rootDevPath)
                   /\ EjectSyncCall(a, o, status, FALSE))
                  => /\ procs'[Len(procs')].args
                          = ejectsStart(EjectState, a, o, "explicit")
                              .procs[Len(procs) + 1].args
                     /\ calls'[Len(calls')].result = runEject(status)
                     /\ runEject(status).ok
                          => attaches'[a].rootDevPath = ejectsFinish(attaches[a]).rootDevPath
            /\ (/\ rev = "sync"
                /\ EjectSucceeded(a)
                /\ \/ EjectCall(a, o)
                   \/ \E status \in ExitCodes : \E error \in BOOLEAN :
                         EjectSyncCall(a, o, status, error))
               => /\ procs' = procs
                  /\ calls'[Len(calls')].pc = "returned"
                  /\ calls'[Len(calls')].proc = 0]_vars

\* C23 witness: after attachSync, ejectSync has run the tool with success and
\* a later eject returned without a subprocess.
C23_Witness ==
    /\ rev = "sync"
    /\ \E a \in 1..Len(attaches) : \E c, d \in CallsOf(a) :
          /\ attaches[a].sync
          /\ c < d
          /\ calls[c].sync /\ calls[c].pc = "returned" /\ calls[c].proc # 0
          /\ ~calls[d].sync /\ calls[d].pc = "returned" /\ calls[d].proc = 0

\* C23 witness, the other order: eject has run the tool with success and a
\* later ejectSync returned without a subprocess.
C23_WitnessAsyncFirst ==
    /\ rev = "sync"
    /\ \E a \in 1..Len(attaches) : \E c, d \in CallsOf(a) :
          /\ c < d
          /\ ~calls[c].sync /\ calls[c].pc = "returned" /\ calls[c].proc # 0
          /\ calls[d].sync /\ calls[d].pc = "returned" /\ calls[d].proc = 0

\* A call of a capability of attach a is waiting for its subprocess.
EjectWaiting(a) == \E c \in CallsOf(a) : calls[c].pc = "awaiting"

\* C24: a call of the eject capability made while an earlier call of the
\* same capability is still waiting for the tool starts no subprocess, so
\* the tool is started at most once for that attach.
C24_ConcurrentCallShortCircuits ==
    [][\A a \in 1..Len(attaches) : \A o \in CallOptions :
          (EjectWaiting(a) /\ EjectCall(a, o)) => procs' = procs]_vars

\* A drain has run the shutdown callback of attach a to its successful end.
DrainEjected(a) ==
    \E c \in CallsOf(a) : calls[c].via = "shutdown" /\ calls[c].pc = "returned"

\* C25: for an attach that requested auto-eject, once a shutdown drain has
\* run the callback of that attach, a later explicit call of the capability
\* starts no subprocess and returns, so the tool has been started at most
\* once for that attach.
C25_DrainThenCallIsNoOp ==
    [][\A a \in 1..Len(attaches) : \A o \in CallOptions :
          (DrainEjected(a) /\ EjectCall(a, o))
          => /\ procs' = procs
             /\ calls'[Len(calls')].pc = "returned"]_vars

(***************************************************************************)
(* _runAttach event by event: the tool writes its output in chunks, the    *)
(* 'data' events of proc.stdout hand them to the listener one at a time,   *)
(* and the 'exit' event of the subprocess resolves `done`.  Node emits     *)
(* 'exit' when the subprocess has ended, whether or not its stdio streams  *)
(* have been read to their end (that is what 'close' reports).             *)
(* pin is the call, pout the state of the call and of its subprocess.      *)
(***************************************************************************)
\* Most chunks one subprocess writes.
MaxChunks == 3

\* The pieces the output of the tool arrives in.
Chunks == {"<plist>", "</plist>"}

\* Buffer.concat(stdoutData).toString()
RECURSIVE BufferConcat(_)
BufferConcat(list) ==
    IF list = <<>> THEN "" ELSE Head(list) \o BufferConcat(Tail(list))

\* spawn(this.hdiutil, args); proc.stdout.on('data', ...); await done
StreamInit ==
    /\ SysInit
    /\ hookLog = HookLogIdle
    /\ pin = [fn |-> "_runAttach", args |-> argsAttach(ImageFile, JsNull)]
    /\ pout = [done |-> FALSE, proc |-> "running", written |-> <<>>,
               pipe |-> <<>>, stdoutData |-> <<>>, pc |-> "awaiting",
               text |-> ""]

\* The tool writes one more chunk to its standard output.
ProcWrite(chunk) ==
    /\ pout.proc = "running"
    /\ Len(pout.written) < MaxChunks
    /\ pout' = [pout EXCEPT !.written = Append(@, chunk),
                            !.pipe = Append(@, chunk)]
    /\ UNCHANGED <<sysvars, hookLog, pin>>

\* The tool terminates; what it wrote may still be in the pipe.
ProcTerminate ==
    /\ pout.proc = "running"
    /\ pout' = [pout EXCEPT !.proc = "terminated"]
    /\ UNCHANGED <<sysvars, hookLog, pin>>

\* A 'data' event of proc.stdout: stdoutData.push(data).
StdoutData ==
    /\ pout.pipe # <<>>
    /\ pout' = [pout EXCEPT !.stdoutData = Append(@, Head(pout.pipe)),
                            !.pipe = Tail(@)]
    /\ UNCHANGED <<sysvars, hookLog, pin>>

\* The 'exit' event of the subprocess resolves `done`; the rest of
\* _runAttach runs before any further event is dispatched.
ProcExit(code) ==
    /\ pout.proc = "terminated"
    /\ pout.pc = "awaiting"
    /\ pout' = IF Truthy(code)
               THEN [pout EXCEPT !.proc = "exit", !.pc = "threw", !.done = TRUE]
               ELSE [pout EXCEPT !.proc = "exit", !.pc = "parsing",
                                 !.done = TRUE,
                                 !.text = BufferConcat(pout.stdoutData)]
    /\ UNCHANGED <<sysvars, hookLog, pin>>

StreamNext ==
    \/ \E chunk \in Chunks : ProcWrite(chunk)
    \/ ProcTerminate
    \/ StdoutData
    \/ \E code \in ExitCodes : ProcExit(code)

SpecStream == StreamInit /\ [][StreamNext]_vars

\* C26: within one attach call the parser is started only after the
\* subprocess has terminated, and the text handed to it is everything the
\* subprocess wrote to its standard output, whatever the order of the 'data'
\* events and the 'exit' event.
C26_ParsesCompleteStdout ==
    (pin.fn = "_runAttach" /\ pout.pc = "parsing")
    => /\ pout.proc = "exit"
       /\ pout.text = BufferConcat(pout.written)

\* C27: every callback in the registry belongs to an attach that returned
\* with success, was asked to eject at shutdown, has a root device, and whose
\* eject capability has not been called yet, by the program or by a drain;
\* the registry holds at most one callback per attach (and so is empty until
\* the first such attach).
C27_RegistryHoldsLiveAutoEjects ==
    /\ \A i \in 1..Len(Registry) :
          /\ Registry[i] \in 1..Len(attaches)
          /\ attaches[Registry[i]].pc = "returned"
          /\ Truthy(attaches[Registry[i]].ejectOnShutdown)
          /\ Truthy(findRootDevice(DevicesOf(Registry[i])))
          /\ CallsOf(Registry[i]) = {}
    /\ \A i, j \in 1..Len(Registry) : Registry[i] = Registry[j] => i = j

\* C27 witness: two auto-eject attaches are registered, then the capability
\* of the first has been called and only the second is left.
C27_Witness ==
    /\ Len(attaches) = 2
    /\ Registry = <<2>>
    /\ attaches[1].pc = "returned"
    /\ Truthy(attaches[1].ejectOnShutdown)
    /\ CallsOf(1) # {}

\* A call of a capability of attach a has failed (non-zero exit or launch
\* error of the eject subprocess).
EjectFailed(a) ==
    \E c \in CallsOf(a) : calls[c].pc = "threw" /\ calls[c].proc # 0

\* C28: when the eject started by the capability fails, the error reaches
\* the caller and the capability is in its ejected state: its callback is out
\* of the registry, and a later call or a later drain starts no subprocess
\* for that attach.
C28_FailedEjectStaysEjected ==
    [][\A a \in 1..Len(attaches) :
          EjectFailed(a) =>
              /\ ~InSeq(Registry, a)
              /\ EjectProcsOf(a)' = EjectProcsOf(a)]_vars

\* The attach a fails in this step (attach after its await, or attachSync).
Fails(a) ==
    /\ a <= Len(attaches')
    /\ attaches'[a].pc = "threw"
    /\ IF a <= Len(attaches) THEN attaches[a].pc = "running" ELSE TRUE

\* C29: an attach that fails (launch error, non-zero exit, parse error)
\* leaves the registry as it was, also when it was asked to eject at
\* shutdown: no callback is registered and no process-exit handler installed.
C29_FailedAttachLeavesRegistry ==
    [][\A a \in 1..MaxAttach :
          Fails(a) => /\ exitHooks' = exitHooks
                      /\ exitListeners' = exitListeners
                      /\ exitHooked' = exitHooked
                      /\ attaches'[a].shutdownEjector = FALSE]_vars

\* C29 witness: with the callback of a first attach registered, a second
\* attach asked to eject at shutdown has failed on its response, and a
\* registry of one callback is what is left.
C29_Witness ==
    /\ Len(attaches) = 2
    /\ attaches[2].pc = "threw"
    /\ attaches[2].parsed
    /\ Truthy(attaches[2].ejectOnShutdown)
    /\ Registry = <<1>>
    /\ exitHooked

ShutdownCalls == {c \in 1..Len(calls) : calls[c].via = "shutdown"}

\* C30: the shutdown callback of an auto-eject attach ejects the root device
\* of that attach with the eject options attach was given: -force is passed
\* iff those options have force true, whatever the options of explicit calls
\* and whatever the callbacks of other attaches do.
C30_ShutdownUsesAttachOptions ==
    \A c \in ShutdownCalls :
        LET at == attaches[calls[c].attach]
            args == procs[calls[c].proc].args
        IN  /\ Truthy(at.ejectOnShutdown)
            /\ calls[c].options = at.ejectOnShutdown
            /\ calls[c].proc # 0
            /\ procs[calls[c].proc].owner = calls[c].attach
            /\ args[1] = "eject"
            /\ InArgs(args, "-force") <=> ForceTrue(at.ejectOnShutdown)
            /\ args[Len(args)] = findRootDevice(at.result.value).device.devEntry

\* C30 witness: one drain has run the callbacks of two attaches, with -force
\* for the attach asked for it and without for the other, and an explicit
\* call with force true has been made on the attach drained without -force.
C30_Witness ==
    \E c, d \in ShutdownCalls : \E x \in ExplicitCalls :
        /\ calls[c].attach # calls[d].attach
        /\ InArgs(procs[calls[c].proc].args, "-force")
        /\ ~InArgs(procs[calls[d].proc].args, "-force")
        /\ calls[x].attach = calls[d].attach
        /\ ForceTrue(calls[x].options)

====
